---------------------------- MODULE Spec2Model ----------------------------
(***************************************************************************)
(* A model of xtgeo's GridProperty (src/src/xtgeo/grid3d/grid_property.py):*)
(* one property instance, its masked 3D array, its discrete/continuous     *)
(* flag, its code table and its link to a grid geometry, driven by the     *)
(* public methods of the class.                                            *)
(*                                                                         *)
(* Numbers.  A cell value is an integer counting units of 1/Unit, so with  *)
(* Unit = 2 the value 3 stands for 1.5 and 99 is held as Num(99) = 198.    *)
(* An integer dtype holds whole numbers only (multiples of Unit); a cast   *)
(* to an integer dtype truncates toward zero as numpy's astype does.  The  *)
(* sentinels of xtgeo.cxtgeo (UNDEF = 10E32, UNDEF_LIMIT = 9.9E32,         *)
(* UNDEF_INT = 2000000000, UNDEF_INT_LIMIT = 1999999999) and the ends of   *)
(* the int32 range are held as numbers in the same order as the real ones, *)
(* far above every ordinary value: the code only compares with them.       *)
(*                                                                         *)
(* Arrays.  An array is a record: kind (a plain ndarray or a MaskedArray), *)
(* shape, dtype, data (flat, C order, 1-based), mask (<<>> is numpy's      *)
(* nomask, else one boolean per cell) and base, which says whose buffer    *)
(* the data lives in: "stored" is the buffer of the property's own array,  *)
(* "fresh" a buffer nothing else refers to.                                *)
(***************************************************************************)
EXTENDS Integers, Sequences, FiniteSets, TLC

\* ------------------------------------------------------------- bounds
MaxCol == 2
MaxRow == 2
MaxLay == 1
MaxCells == 4
MaxCalls == 3
Unit == 2

Num(n) == n * Unit

\* --------------------------------------------------- program constants
\* xtgeo.cxtgeo sentinels as bound at construction, and the int32 range.
UNDEF_INT_LIMIT == Num(1999)
UNDEF_INT == Num(2000)
INT32_MAX == Num(2147)
INT32_MIN == Num(0 - 2148)
UNDEF_LIMIT == Num(9900)
UNDEF == Num(10000)

None == "None"

\* allowedfloat / allowedint of the dtype setter
allowedfloat == {"float16", "float32", "float64"}
allowedint == {"uint8", "uint16", "int16", "int32", "int64"}

\* 'int' in str(values.dtype): the numpy dtype names that contain "int"
HasInt(dt) ==
    dt \in {"int8", "int16", "int32", "int64",
            "uint8", "uint16", "uint32", "uint64"}

\* What a cast of a float outside the int32 range can leave in an int32
\* cell: the C conversion is undefined; builds yield either end of the range.
OvfResults == {INT32_MIN, INT32_MAX}

\* the outcomes open to a cast of array a: both when a cell is out of range
Ovf(a) ==
    IF \E n \in 1..Len(a.data) : a.data[n] > INT32_MAX \/ a.data[n] < INT32_MIN
    THEN OvfResults
    ELSE {INT32_MAX}

\* ------------------------------------------------------ array helpers
Min(a, b) == IF a < b THEN a ELSE b
Max(a, b) == IF a > b THEN a ELSE b

RECURSIVE Prod(_)
Prod(s) == IF s = <<>> THEN 1 ELSE Head(s) * Prod(Tail(s))

\* number of cells of a shape without an unknown (negative) extent
Size(shp) == Prod(shp)

\* flat 1-based position of the 0-based cell (i, j, k) in C order
CIndex(shp, i, j, k) == (i * shp[2] + j) * shp[3] + k + 1

\* the 0-based (i, j, k) of the flat 1-based position n in C order
Unravel(shp, n) ==
    << (n - 1) \div (shp[2] * shp[3]),
       ((n - 1) \div shp[3]) % shp[2],
       (n - 1) % shp[3] >>

IsMasked(a, n) == a.mask # <<>> /\ a.mask[n]

\* the flat positions of the masked cells
MaskedCells(a) == {n \in 1..Len(a.data) : IsMasked(a, n)}

\* numpy never keeps a full mask without a True in it after shrinking
ShrinkMask(m) == IF \E n \in 1..Len(m) : m[n] THEN m ELSE <<>>

\* truncation toward zero to a whole number
Trunc(v) == IF v >= 0 THEN (v \div Unit) * Unit
            ELSE 0 - (((0 - v) \div Unit) * Unit)

\* one cell cast to dtype dt; ovf is what an out-of-range float becomes
CastCell(v, dt, ovf) ==
    IF HasInt(dt)
    THEN IF v > INT32_MAX \/ v < INT32_MIN THEN ovf ELSE Trunc(v)
    ELSE v

\* ndarray.copy() / MaskedArray.copy(): same contents in a new buffer
Copy(a) == [a EXCEPT !.base = "fresh"]

\* astype(dtype): a converted copy, the mask kept
AsType(a, dt, ovf) ==
    [a EXCEPT !.dtype = dt,
              !.data = [n \in 1..Len(a.data) |-> CastCell(a.data[n], dt, ovf)],
              !.base = "fresh"]

\* ma.array(ndarray): the same data seen as a MaskedArray without a mask
MaArray(a) == [a EXCEPT !.kind = "masked"]

\* numpy's reshape accepts a shape when the element count fits; a single
\* negative extent is taken as unknown and inferred
Unknowns(shp) == {d \in 1..Len(shp) : shp[d] < 0}
Known(shp) == Prod([d \in 1..Len(shp) |-> IF shp[d] < 0 THEN 1 ELSE shp[d]])

CanReshape(a, shp) ==
    IF Unknowns(shp) = {}
    THEN Size(shp) = Len(a.data)
    ELSE /\ Cardinality(Unknowns(shp)) = 1
         /\ Known(shp) # 0
         /\ Len(a.data) % Known(shp) = 0

Reshape(a, shp) ==
    [a EXCEPT !.shape = [d \in 1..Len(shp) |->
                            IF shp[d] < 0 THEN Len(a.data) \div Known(shp)
                            ELSE shp[d]]]

\* Python's slice start:stop on an axis of length len, as the half-open
\* 0-based range <<lo, hi>>
PyBound(x, len) == IF x < 0 THEN Max(x + len, 0) ELSE Min(x, len)
PySlice(start, stop, len) ==
    << PyBound(start, len), Max(PyBound(start, len), PyBound(stop, len)) >>

\* a[s1:e1, s2:e2, s3:e3] of a 3D array: a view, same buffer
Slice3(a, r1, r2, r3) ==
    LET p1 == PySlice(r1[1], r1[2], a.shape[1])
        p2 == PySlice(r2[1], r2[2], a.shape[2])
        p3 == PySlice(r3[1], r3[2], a.shape[3])
        shp == << p1[2] - p1[1], p2[2] - p2[1], p3[2] - p3[1] >>
        src(n) == LET c == Unravel(shp, n)
                  IN  CIndex(a.shape, p1[1] + c[1], p2[1] + c[2], p3[1] + c[3])
    IN  [a EXCEPT !.shape = shp,
                  !.data = [n \in 1..Size(shp) |-> a.data[src(n)]],
                  !.mask = IF a.mask = <<>> THEN <<>>
                           ELSE [n \in 1..Size(shp) |-> a.mask[src(n)]]]

\* ma.masked_greater(a, limit): a copy in which the cells above limit are
\* masked as well as those already masked
MaskedGreater(a, limit) ==
    [a EXCEPT !.kind = "masked",
              !.mask = ShrinkMask([n \in 1..Len(a.data) |->
                                      IsMasked(a, n) \/ a.data[n] > limit]),
              !.base = "fresh"]

\* ma.masked_equal(a, v)
MaskedEqual(a, v) ==
    [a EXCEPT !.kind = "masked",
              !.mask = ShrinkMask([n \in 1..Len(a.data) |->
                                      IsMasked(a, n) \/ a.data[n] = v]),
              !.base = "fresh"]

\* ma.filled(a, fill_value): a plain ndarray; without a mask it is the data
\* of a itself, else a copy with the masked cells set to fill_value
Filled(a, fvalue) ==
    IF a.mask = <<>>
    THEN [a EXCEPT !.kind = "ndarray"]
    ELSE [a EXCEPT !.kind = "ndarray",
                   !.data = [n \in 1..Len(a.data) |->
                                IF a.mask[n] THEN fvalue ELSE a.data[n]],
                   !.mask = <<>>,
                   !.base = "fresh"]

\* the array becomes the property's own: its buffer is the stored one
Stored(a) == [a EXCEPT !.base = "stored"]

\* ------------------------------------------------------- code table
\* One entry of the codes dict: an integer key (or Python's None, which
\* tolist() yields for a masked element) and its label.
CodeEntry(v) == [key |-> v \div Unit, isnone |-> FALSE, label |-> ToString(v \div Unit)]
NoneEntry == [key |-> 0, isnone |-> TRUE, label |-> "None"]

\* np.unique(val).tolist() turned into {k: str(k)}: the distinct unmasked
\* values, and one masked element (None) when any cell is masked
UniqueCodes(val) ==
    {CodeEntry(val.data[n]) : n \in {m \in 1..Len(val.data) : ~IsMasked(val, m)}}
    \cup (IF MaskedCells(val) # {} THEN {NoneEntry} ELSE {})

\* act.codes = {0: '0', 1: '1'}
ActnumCodes == {CodeEntry(Num(0)), CodeEntry(Num(1))}

\* ------------------------------------------------- the instance: methods
\* A GridProperty is a record self; a method is an operator from self (and
\* its arguments) to the outcome [self, raised, ret].
Dimensions(self) == << self.ncol, self.nrow, self.nlay >>

Outcome(self, raised, ret) == [self |-> self, raised |-> raised, ret |-> ret]

discrete_to_continuous(self) ==
    IF self.isdiscrete
    THEN [self EXCEPT !.values = Stored(AsType(Copy(self.values), "float64", 0)),
                      !.isdiscrete = FALSE,
                      !.codes = {},
                      !.roxar_dtype = "float32"]
    ELSE self

\* continuous_to_discrete as it would be if the cast went through the plain
\* data (np.asarray) and lost the mask
continuous_to_discrete_dropmask(self, ovf) ==
    IF ~self.isdiscrete
    THEN LET val == [AsType(Copy(self.values), "int32", ovf) EXCEPT !.mask = <<>>]
         IN  [self EXCEPT !.values = Stored(val),
                          !.isdiscrete = TRUE,
                          !.codes = UniqueCodes(val),
                          !.roxar_dtype = "uint16"]
    ELSE self

continuous_to_discrete(self, ovf) ==
    IF ~self.isdiscrete
    THEN LET val == AsType(Copy(self.values), "int32", ovf)
         IN  [self EXCEPT !.values = Stored(val),
                          !.isdiscrete = TRUE,
                          !.codes = UniqueCodes(val),
                          !.roxar_dtype = "uint16"]
    ELSE self

\* the values setter as it would be without the look at the new dtype
values_setter_keepflag(self, v, ovf) ==
    IF v.kind \notin {"ndarray", "masked"}
    THEN Outcome(self, "ValueError", None)
    ELSE IF ~CanReshape(v, Dimensions(self))
    THEN Outcome(self, "ValueError", None)
    ELSE Outcome([self EXCEPT
                     !.values = Stored(Reshape(MaArray(v), Dimensions(self)))],
                 "none", None)

\* the values setter as it would be if it stored the array before reshaping it
values_setter_storefirst(self, v, ovf) ==
    IF v.kind \notin {"ndarray", "masked"}
    THEN Outcome(self, "ValueError", None)
    ELSE IF ~CanReshape(v, Dimensions(self))
    THEN Outcome([self EXCEPT !.values = Stored(MaArray(v))], "ValueError", None)
    ELSE LET s1 == [self EXCEPT
                       !.values = Stored(Reshape(MaArray(v), Dimensions(self)))]
             trydiscrete == HasInt(v.dtype)
         IN  IF trydiscrete # s1.isdiscrete
             THEN IF trydiscrete
                  THEN Outcome(continuous_to_discrete(s1, ovf), "none", None)
                  ELSE Outcome(discrete_to_continuous(s1), "none", None)
             ELSE Outcome(s1, "none", None)

\* the values setter
values_setter(self, v, ovf) ==
    IF v.kind \notin {"ndarray", "masked"}
    THEN Outcome(self, "ValueError", None)
    ELSE IF ~CanReshape(v, Dimensions(self))
    THEN Outcome(self, "ValueError", None)
    ELSE LET s1 == [self EXCEPT
                       !.values = Stored(Reshape(MaArray(v), Dimensions(self)))]
             trydiscrete == HasInt(v.dtype)
         IN  IF trydiscrete # s1.isdiscrete
             THEN IF trydiscrete
                  THEN Outcome(continuous_to_discrete(s1, ovf), "none", None)
                  ELSE Outcome(discrete_to_continuous(s1), "none", None)
             ELSE Outcome(s1, "none", None)

\* the geometry setter; a grid is a record with its id and dimensions
IsGrid(geom) == geom.type = "Grid"
NoGeometry == [type |-> "None", id |-> 0, dimensions |-> <<>>]

\* the geometry setter as it would be without the comparison of dimensions
geometry_setter_nodims(self, geom) ==
    IF geom.type = "None"
    THEN Outcome([self EXCEPT !.geometry = NoGeometry], "none", None)
    ELSE IF IsGrid(geom)
    THEN Outcome([self EXCEPT !.geometry = geom], "none", None)
    ELSE Outcome(self, "ValueError", None)

geometry_setter(self, geom) ==
    IF geom.type = "None"
    THEN Outcome([self EXCEPT !.geometry = NoGeometry], "none", None)
    ELSE IF IsGrid(geom) /\ geom.dimensions = Dimensions(self)
    THEN Outcome([self EXCEPT !.geometry = geom], "none", None)
    ELSE Outcome(self, "ValueError", None)

\* __init__ without values: zeros + 99, then the test pattern
\* values[0:4, 0, 0:2] = undef, masked above the (float) undef limit
TestCells(shp) ==
    {CIndex(shp, i, 0, k) : i \in 0..(Min(4, shp[1]) - 1),
                            k \in 0..(Min(2, shp[3]) - 1)}

\* ma.zeros(shape) accepts no negative extent, and the test pattern
\* indexes row 0
CanDefault(shp) == shp[1] >= 0 /\ shp[2] >= 1 /\ shp[3] >= 0

NoValues == [kind |-> "None"]

\* date=None, and self._filesrc = None
NoDate == [kind |-> "None"]
NoFile == [kind |-> "None", path |-> << >>, isfile |-> FALSE]

\* self._actnum_indices = None
NoIndices == [isnone |-> TRUE, ind |-> <<>>]

\* __init__(ncol, nrow, nlay, values, discrete); its reshape must succeed
CanInit(shp, v) ==
    IF v.kind = "None" THEN CanDefault(shp) ELSE CanReshape(v, shp)

Init_(shp, v, discrete, ovf) ==
    LET testmask == v.kind = "None"
        v0 == IF testmask
              THEN [kind |-> "masked", shape |-> shp, dtype |-> "float64",
                    data |-> [n \in 1..Size(shp) |-> Num(99)],
                    mask |-> <<>>, base |-> "fresh"]
              ELSE MaArray(Reshape(v, shp))
        v1 == IF discrete THEN AsType(v0, "int32", ovf) ELSE v0
        v2 == IF testmask
              THEN MaskedGreater(
                       [v1 EXCEPT !.data = [n \in 1..Len(v1.data) |->
                           IF n \in TestCells(shp)
                           THEN CastCell(UNDEF, v1.dtype, ovf)
                           ELSE v1.data[n]]],
                       UNDEF_LIMIT)
              ELSE v1
    IN  [ncol |-> shp[1], nrow |-> shp[2], nlay |-> shp[3],
         isdiscrete |-> discrete,
         geometry |-> NoGeometry,
         values |-> Stored(v2),
         codes |-> {},
         actnum_indices |-> NoIndices,
         roxar_dtype |-> IF discrete THEN "uint8" ELSE "float32",
         name |-> "unknown",
         date |-> NoDate,
         roxorigin |-> FALSE,
         filesrc |-> NoFile]

\* np.flatnonzero: the 0-based flat positions of the non-zero cells
FlatNonzero(data) ==
    SelectSeq([n \in 1..Len(data) |-> n - 1], LAMBDA i : data[i + 1] # 0)

\* get_npvalues3d as it would be without .copy().astype(dtype): ma.filled
\* on the stored array itself
get_npvalues3d_nocopy(self, fill, ovf) ==
    LET fvalue == IF ~fill.given
                  THEN IF self.isdiscrete THEN UNDEF_INT ELSE UNDEF
                  ELSE fill.value
    IN  Outcome(self, "none", Filled(self.values, fvalue))

get_npvalues3d(self, fill, ovf) ==
    LET fvalue == IF ~fill.given
                  THEN IF self.isdiscrete THEN UNDEF_INT ELSE UNDEF
                  ELSE fill.value
        dtype == IF ~fill.given
                 THEN IF self.isdiscrete THEN "int32" ELSE "float64"
                 ELSE "float64"
        val == AsType(Copy(self.values), dtype, ovf)
    IN  Outcome(self, "none", Filled(val, fvalue))

get_actnum(self, mask, ovf) ==
    IF ~CanDefault(Dimensions(self))
    THEN Outcome(self,
                 IF self.ncol < 0 \/ self.nrow < 0 \/ self.nlay < 0
                 THEN "ValueError" ELSE "IndexError",
                 None)
    ELSE LET act == [Init_(Dimensions(self), NoValues, TRUE, ovf)
                        EXCEPT !.name = "ACTNUM"]
             orig == self.values
             ones == [kind |-> "ndarray", shape |-> orig.shape,
                      dtype |-> "float64",
                      data |-> [n \in 1..Len(orig.data) |->
                                   IF IsMasked(orig, n) THEN Num(0) ELSE Num(1)],
                      mask |-> <<>>, base |-> "fresh"]
             vact == IF mask THEN MaskedEqual(ones, Num(0)) ELSE ones
             set == values_setter(act, AsType(vact, "int32", ovf), ovf)
         IN  IF set.raised # "none"
             THEN Outcome(self, set.raised, None)
             ELSE Outcome(self, "none", [set.self EXCEPT !.codes = ActnumCodes])

actnum_indices(self, ovf) ==
    LET actnumv == get_actnum(self, FALSE, ovf)
    IN  IF actnumv.raised # "none"
        THEN Outcome(self, actnumv.raised, None)
        ELSE LET ind == FlatNonzero(actnumv.ret.values.data)
             IN  Outcome([self EXCEPT !.actnum_indices = [isnone |-> FALSE, ind |-> ind]],
                         "none", ind)

mask_undef(self) ==
    IF self.isdiscrete
    THEN [self EXCEPT !.values = Stored(MaskedGreater(self.values, UNDEF_INT_LIMIT))]
    ELSE [self EXCEPT !.values = Stored(MaskedGreater(self.values, UNDEF_LIMIT))]

crop(self, spec, ovf) ==
    LET ic == spec[1]
        jc == spec[2]
        kc == spec[3]
        s1 == [self EXCEPT !.ncol = ic[2] - ic[1] + 1,
                           !.nrow = jc[2] - jc[1] + 1,
                           !.nlay = kc[2] - kc[1] + 1]
        newvalues == Copy(self.values)
    IN  values_setter(s1,
                      Slice3(newvalues, << ic[1] - 1, ic[2] >>,
                                        << jc[1] - 1, jc[2] >>,
                                        << kc[1] - 1, kc[2] >>),
                      ovf)

\* the dtype setter: a cast of the stored array, handed to the values setter
dtype_setter(self, dtype, ovf) ==
    IF dtype \in (IF self.isdiscrete THEN allowedint ELSE allowedfloat)
    THEN values_setter(self, AsType(self.values, dtype, ovf), ovf)
    ELSE Outcome(self, "ValueError", None)

\* the undef and undef_limit properties
undef(self) == IF self.isdiscrete THEN UNDEF_INT ELSE UNDEF
undef_limit(self) == IF self.isdiscrete THEN UNDEF_INT_LIMIT ELSE UNDEF_LIMIT

\* --------------------------------------- operations inside polygons
\* The outcome of a method that calls collaborators: what it leaves, and
\* the calls it made to them, in order.
OutcomeWith(self, raised, ret, log) ==
    [self |-> self, raised |-> raised, ret |-> ret, collab |-> log]

OpNames == {"add", "sub", "mul", "div", "set"}

\* one cell under an operation with a scalar, to the resolution of Unit
Combine(v, value, opname) ==
    CASE opname = "add" -> v + value
      [] opname = "sub" -> v - value
      [] opname = "mul" -> (v * value) \div Unit
      [] opname = "div" -> (v * Unit) \div value
      [] OTHER -> value

\* _gridprop_op1.operation_polygons: the cells the geometry places inside
\* the polygons (poly.inside) are, or are not, the ones that change; a
\* division by zero aborts the operation
PolygonsCollaborator(self, poly, value, opname, inside) ==
    IF opname = "div" /\ value = 0
    THEN [self |-> self, raised |-> "ZeroDivisionError"]
    ELSE [self |-> [self EXCEPT !.values.data =
                       [n \in 1..Len(self.values.data) |->
                           IF (n \in poly.inside) = inside /\ ~IsMasked(self.values, n)
                           THEN Combine(self.values.data[n], value, opname)
                           ELSE self.values.data[n]]],
          raised |-> "none"]

PolygonsCall(opname, inside) ==
    [fn |-> "operation_polygons", opname |-> opname, inside |-> inside]

\* operation_polygons as it would be without the look at the geometry
operation_polygons_nogeometry(self, poly, value, opname, inside) ==
    LET done == PolygonsCollaborator(self, poly, value, opname, inside)
    IN  OutcomeWith(done.self, done.raised, None,
                    << PolygonsCall(opname, inside) >>)

operation_polygons(self, poly, value, opname, inside) ==
    IF self.geometry = NoGeometry
    THEN OutcomeWith(self, "ValueError", None, << >>)
    ELSE LET done == PolygonsCollaborator(self, poly, value, opname, inside)
         IN  OutcomeWith(done.self, done.raised, None,
                         << PolygonsCall(opname, inside) >>)

\* shortforms
add_inside(self, poly, value) == operation_polygons(self, poly, value, "add", TRUE)
add_outside(self, poly, value) == operation_polygons(self, poly, value, "add", FALSE)
sub_inside(self, poly, value) == operation_polygons(self, poly, value, "sub", TRUE)
sub_outside(self, poly, value) == operation_polygons(self, poly, value, "sub", FALSE)
mul_inside(self, poly, value) == operation_polygons(self, poly, value, "mul", TRUE)
mul_outside(self, poly, value) == operation_polygons(self, poly, value, "mul", FALSE)
div_inside(self, poly, value) == operation_polygons(self, poly, value, "div", TRUE)
div_outside(self, poly, value) == operation_polygons(self, poly, value, "div", FALSE)
set_inside(self, poly, value) == operation_polygons(self, poly, value, "set", TRUE)
set_outside(self, poly, value) == operation_polygons(self, poly, value, "set", FALSE)

Shortforms ==
    {"add_inside", "add_outside", "sub_inside", "sub_outside", "mul_inside",
     "mul_outside", "div_inside", "div_outside", "set_inside", "set_outside"}

\* a call of the shortform of this name
CallShortform(w, self, poly, value) ==
    CASE w = "add_inside" -> add_inside(self, poly, value)
      [] w = "add_outside" -> add_outside(self, poly, value)
      [] w = "sub_inside" -> sub_inside(self, poly, value)
      [] w = "sub_outside" -> sub_outside(self, poly, value)
      [] w = "mul_inside" -> mul_inside(self, poly, value)
      [] w = "mul_outside" -> mul_outside(self, poly, value)
      [] w = "div_inside" -> div_inside(self, poly, value)
      [] w = "div_outside" -> div_outside(self, poly, value)
      [] w = "set_inside" -> set_inside(self, poly, value)
      [] OTHER -> set_outside(self, poly, value)

\* ------------------------------------------------ import and export
\* A Python str whose characters matter (a file name, a format, a date) is
\* the sequence of its characters.
\* the strings the code compares with
GUESS == << "g", "u", "e", "s", "s" >>
ROFF == << "r", "o", "f", "f" >>
INIT == << "i", "n", "i", "t" >>
UNRST == << "u", "n", "r", "s", "t" >>
ASC == << "a", "s", "c" >>
FIRST == << "f", "i", "r", "s", "t" >>
LAST == << "l", "a", "s", "t" >>

LowerChar(c) ==
    CASE c = "R" -> "r" [] c = "O" -> "o" [] c = "F" -> "f" [] c = "I" -> "i"
      [] c = "N" -> "n" [] c = "T" -> "t" [] c = "U" -> "u" [] c = "S" -> "s"
      [] OTHER -> c

\* str.lower()
Lower(str) == [n \in 1..Len(str) |-> LowerChar(str[n])]

\* sub in str
Contains(str, sub) ==
    \E n \in 1..(Len(str) - Len(sub) + 1) : SubSeq(str, n, n + Len(sub) - 1) = sub

\* str.replace(c, '')
Without(str, c) == SelectSeq(str, LAMBDA x : x # c)

\* the last position of c in str, 0 if there is none
LastIndex(str, c) ==
    LET at == {n \in 1..Len(str) : str[n] = c}
    IN  IF at = {} THEN 0 ELSE CHOOSE n \in at : \A m \in at : m <= n

\* os.path.splitext: the extension starts at the last dot of the last path
\* component, unless only dots precede it there
splitext(path) ==
    LET sep == LastIndex(path, "/")
        dot == LastIndex(path, ".")
    IN  IF dot > sep /\ \E n \in (sep + 1)..(dot - 1) : path[n] # "."
        THEN << SubSeq(path, 1, dot - 1), SubSeq(path, dot, Len(path)) >>
        ELSE << path, << >> >>

Digits == << "0", "1", "2", "3", "4", "5", "6", "7", "8", "9" >>

IsDigits(str) ==
    str # << >> /\ \A n \in 1..Len(str) : \E d \in 1..10 : Digits[d] = str[n]

\* int(str) of a string of decimal digits
RECURSIVE IntOf(_)
IntOf(str) ==
    IF str = << >> THEN 0
    ELSE 10 * IntOf(SubSeq(str, 1, Len(str) - 1))
         + (CHOOSE d \in 1..10 : Digits[d] = str[Len(str)]) - 1

\* from_file, lines 700-710: the date handed to the restart codec, or the
\* ValueError of a missing date or of int() on a string that is no number
RestartDate(date) ==
    IF date.kind = "None" THEN [raised |-> "ValueError", date |-> 0]
    ELSE IF date.kind = "int" THEN [raised |-> "none", date |-> date.value]
    ELSE IF Contains(date.str, << "-" >>)
    THEN IF IsDigits(Without(date.str, "-"))
         THEN [raised |-> "none", date |-> IntOf(Without(date.str, "-"))]
         ELSE [raised |-> "ValueError", date |-> 0]
    ELSE IF date.str = FIRST THEN [raised |-> "none", date |-> 0]
    ELSE IF date.str = LAST THEN [raised |-> "none", date |-> 9]
    ELSE IF IsDigits(date.str)
    THEN [raised |-> "none", date |-> IntOf(date.str)]
    ELSE [raised |-> "ValueError", date |-> 0]

\* _gridprop_import.import_roff / import_eclbinary: the codec answers with
\* a status code, and with status 0 it has filled the instance from the file
ImportCodec(self, name, ier, content) ==
    IF ier = 0
    THEN [content EXCEPT !.name = name, !.filesrc = self.filesrc,
                         !.geometry = self.geometry]
    ELSE self

\* the translation as it would be if only the four known codes raised
StatusError_knowncodes(ier) ==
    CASE ier = 22 -> "DateNotFoundError"
      [] ier = 23 -> "KeywordNotFoundError"
      [] ier = 24 -> "KeywordFoundNoDateError"
      [] ier = 25 -> "KeywordNotFoundError"
      [] OTHER -> "none"

\* lines 719-733: the exception a status code of the codec becomes
StatusError(ier) ==
    CASE ier = 22 -> "DateNotFoundError"
      [] ier = 23 -> "KeywordNotFoundError"
      [] ier = 24 -> "KeywordFoundNoDateError"
      [] ier = 25 -> "KeywordNotFoundError"
      [] ier # 0 /\ ier \notin {22, 23, 24, 25} -> "RuntimeError"
      [] OTHER -> "none"

\* the end of from_file as it would be if the grid were told of the
\* property before the status code is looked at
Imported_registerfirst(self, fn, etype, name, date, grid, ier, content) ==
    LET call == [fn |-> fn, etype |-> etype, date |-> date, ier |-> ier]
        s1 == ImportCodec(self, name, ier, content)
        log == IF grid # NoGeometry
               THEN << call, [fn |-> "append_prop"] >> ELSE << call >>
    IN  IF StatusError(ier) # "none"
        THEN OutcomeWith(s1, StatusError(ier), [code |-> ier], log)
        ELSE OutcomeWith(s1, "none", "self", log)

\* lines 719-739 of from_file: after the codec fn answered ier
Imported(self, fn, etype, name, date, grid, ier, content) ==
    LET call == [fn |-> fn, etype |-> etype, date |-> date, ier |-> ier]
        s1 == ImportCodec(self, name, ier, content)
    IN  IF StatusError(ier) # "none"
        THEN OutcomeWith(s1, StatusError(ier), [code |-> ier], << call >>)
        ELSE IF grid # NoGeometry
        THEN OutcomeWith(s1, "none", "self", << call, [fn |-> "append_prop"] >>)
        ELSE OutcomeWith(s1, "none", "self", << call >>)

\* the format as it would be if the extension were never looked at
GuessFormat_asgiven(pfile, fformat) == fformat

\* the format from_file goes on with, lines 664-683
GuessFormat(pfile, fformat) ==
    IF pfile.kind = "path" /\ fformat = GUESS
    THEN Without(Lower(splitext(pfile.path)[2]), ".")
    ELSE fformat

from_file(self, pfile, fformat, name, grid, date, ier, content) ==
    LET s1 == [self EXCEPT !.filesrc = pfile]
        fmt == GuessFormat(pfile, fformat)
    IN  IF pfile.kind = "path" /\ ~pfile.isfile
        THEN OutcomeWith(s1, "IOError", None, << >>)
        ELSE IF pfile.kind = "path" /\ fformat = GUESS /\ splitext(pfile.path)[2] = << >>
        THEN OutcomeWith(s1, "ValueError", None, << >>)
        ELSE IF fmt = ROFF
        THEN Imported(s1, "import_roff", 0, name, None, grid, ier, content)
        ELSE IF Lower(fmt) = INIT
        THEN Imported(s1, "import_eclbinary", 1, name, None, grid, ier, content)
        ELSE IF Lower(fmt) = UNRST
        THEN IF RestartDate(date).raised # "none"
             THEN OutcomeWith(s1, RestartDate(date).raised, None, << >>)
             ELSE Imported(s1, "import_eclbinary", 5, name,
                           RestartDate(date).date, grid, ier, content)
        ELSE OutcomeWith(s1, "SystemExit", None, << >>)

to_file(self, pfile, fformat, name) ==
    LET fmt == IF fformat = GUESS THEN ROFF ELSE fformat
    IN  IF Contains(fmt, ROFF)
        THEN OutcomeWith(self, "none", None,
                 << [fn |-> "export_roff",
                     name |-> IF name = None THEN self.name ELSE name,
                     append |-> FALSE, last |-> TRUE,
                     binary |-> ~Contains(fmt, ASC)] >>)
        ELSE OutcomeWith(self, "none", None, << >>)

\* ------------------------------------------------- values by I, J, K
\* An element of a float array that may hold NaN: NaN, or a number v in
\* units of 1/Unit.
NaN == [nan |-> TRUE, v |-> 0]
Val(v) == [nan |-> FALSE, v |-> v]

\* arr[~np.isnan(arr)]
NotNaN(arr) == SelectSeq(arr, LAMBDA x : ~x.nan)

\* arr.astype('int') - base, of one element
IndexOf(x, base) == Trunc(x.v) \div Unit - base

\* the common length numpy broadcasts three 1D index arrays to, or -1
BroadcastLen(l1, l2, l3) ==
    LET others == {l1, l2, l3} \ {1}
    IN  IF others = {} THEN 1
        ELSE IF Cardinality(others) = 1 THEN CHOOSE l \in others : TRUE
        ELSE 0 - 1

\* a (possibly negative) index into an axis of length dim, as numpy reads it
Wrap(x, dim) == IF x < 0 THEN x + dim ELSE x

\* what get_values_by_ijk returns: None, or a 1D float array
RetNone == [isnone |-> TRUE, values |-> << >>]

\* checkempty: whether numpy looks at the bounds of the indices also where
\* the arrays broadcast to no element at all (it has, or has not, by version)
get_values_by_ijk(self, iarr, jarr, karr, base, checkempty) ==
    LET valids == {n \in 1..Len(iarr) : ~iarr[n].nan}
        ii == NotNaN(iarr)
        jj == NotNaN(jarr)
        kk == NotNaN(karr)
        len == BroadcastLen(Len(ii), Len(jj), Len(kk))
        shp == self.values.shape
        At(arr, n) == IF Len(arr) = 1 THEN arr[1] ELSE arr[n]
        ijk(n) == << IndexOf(At(ii, n), base), IndexOf(At(jj, n), base),
                     IndexOf(At(kk, n), base) >>
        each == << ii, jj, kk >>
        inside == /\ \A n \in 1..len : \A d \in 1..3 :
                         0 - shp[d] <= ijk(n)[d] /\ ijk(n)[d] < shp[d]
                  /\ (len = 0 /\ checkempty) =>
                         \A d \in 1..3 : \A n \in 1..Len(each[d]) :
                             /\ 0 - shp[d] <= IndexOf(each[d][n], base)
                             /\ IndexOf(each[d][n], base) < shp[d]
        cell(n) == CIndex(shp, Wrap(ijk(n)[1], shp[1]), Wrap(ijk(n)[2], shp[2]),
                          Wrap(ijk(n)[3], shp[3]))
        rank(n) == Cardinality({m \in valids : m <= n})
    IN  IF len < 0 \/ ~inside
        THEN Outcome(self, "none", RetNone)
        ELSE IF len # Cardinality(valids) /\ len # 1
        THEN Outcome(self, "ValueError", RetNone)
        ELSE Outcome(self, "none",
                 [isnone |-> FALSE,
                  values |-> [n \in 1..Len(iarr) |->
                      IF n \notin valids THEN NaN
                      ELSE LET c == cell(IF len = 1 THEN 1 ELSE rank(n))
                           IN  IF IsMasked(self.values, c) THEN NaN
                               ELSE Val(self.values.data[c])]])

\* ------------------------------------------------------------- copy
\* the isdiscrete setter
isdiscrete_setter(self, flag, ovf) ==
    IF flag \notin BOOLEAN
    THEN Outcome(self, "ValueError", None)
    ELSE IF flag = self.isdiscrete
    THEN Outcome(self, "none", None)
    ELSE IF flag /\ ~self.isdiscrete
    THEN Outcome(continuous_to_discrete(self, ovf), "none", None)
    ELSE Outcome(discrete_to_continuous(self), "none", None)

\* the codes setter: self._codes = cdict.copy()
codes_setter(self, cdict) == [self EXCEPT !.codes = cdict]

\* ' (copy)' and '(copy)'
COPYTAG == << " ", "(", "c", "o", "p", "y", ")" >>

\* lines 592-595 of copy: the file source of the copy, or the TypeError of
\* the test '(copy)' in ... on a file source that is no str
CopiedSource(self, xprop) ==
    IF self.filesrc.kind = "None" THEN Outcome(xprop, "none", None)
    ELSE IF self.filesrc.kind # "path" THEN Outcome(xprop, "TypeError", None)
    ELSE IF ~Contains(self.filesrc.path, Tail(COPYTAG))
    THEN Outcome([xprop EXCEPT !.filesrc =
                                   [self.filesrc EXCEPT !.path = @ \o COPYTAG]],
                 "none", None)
    ELSE Outcome([xprop EXCEPT !.filesrc = self.filesrc], "none", None)

\* copy(): what it returns is the new instance and whether the array of
\* the new instance is the buffer of the source (shares)
copy(self, ovf) ==
    LET values == Copy(self.values)
    IN  IF ~CanInit(Dimensions(self), values)
        THEN Outcome(self, "ValueError", None)
        ELSE LET x0 == [Init_(Dimensions(self), values, FALSE, ovf)
                           EXCEPT !.name = self.name]
                 x1 == geometry_setter(x0, self.geometry)
                 x2 == codes_setter(x1.self, self.codes)
                 x3 == isdiscrete_setter(x2, self.isdiscrete, ovf)
                 x4 == [x3.self EXCEPT !.date = self.date,
                                       !.roxorigin = self.roxorigin,
                                       !.roxar_dtype = self.roxar_dtype]
                 x5 == CopiedSource(self, x4)
             IN  IF x1.raised # "none" THEN Outcome(self, x1.raised, None)
                 ELSE IF x5.raised # "none" THEN Outcome(self, x5.raised, None)
                 ELSE Outcome(self, "none",
                              [self |-> x5.self,
                               shares |-> values.base = "stored"
                                          /\ x5.self.values = x0.values])

\* -------------------------------------------------------------- inputs
\* the shapes a property is constructed with: at most MaxCells cells
Shapes ==
    {shp \in (1..MaxCol) \X (1..MaxRow) \X (1..MaxLay) : Size(shp) <= MaxCells}

InDTypes == {"float64", "float32", "int32", "int64"}

\* cell n of an input array of dtype dt: float64 and int32 inputs are ramps
\* in steps of the smallest unit the dtype holds, float32 and int64 inputs
\* hold the sentinel of their kind in every other cell
InCell(dt, n) ==
    IF dt \in {"float64", "int32"}
    THEN IF HasInt(dt) THEN Num(n) ELSE n
    ELSE IF n % 2 = 1
         THEN IF HasInt(dt) THEN UNDEF_INT ELSE UNDEF
         ELSE Num(99)

\* a caller's 1D array of len cells; a MaskedArray input has its first cell masked
InArray(len, dt, kind) ==
    [kind |-> kind, shape |-> << len >>, dtype |-> dt,
     data |-> [n \in 1..len |-> InCell(dt, n)],
     mask |-> IF kind = "masked" THEN [n \in 1..len |-> n = 1] ELSE <<>>,
     base |-> "fresh"]

InArrays(len) ==
    {InArray(len, dt, kind) : dt \in InDTypes, kind \in {"ndarray", "masked"}}

\* the longest array a caller hands in: one cell more than the largest shape
MaxLen == MaxCells + 1

\* something that is no numpy array at all
NotAnArray == [kind |-> "list"]

\* the grids a caller may link, and something that is no Grid
Grid(id, dims) == [type |-> "Grid", id |-> id, dimensions |-> dims]
Grids == {Grid(1, << MaxCol, MaxRow, MaxLay >>)}
NotAGrid == [type |-> "str", id |-> 0, dimensions |-> <<>>]

\* 1-based inclusive ranges handed to crop; on an array smaller than the
\* bound such a range may run past the array
CropRanges(max) == {r \in (1..max) \X (1..max) : r[1] <= r[2]}
CropSpecs == CropRanges(MaxCol) \X CropRanges(MaxRow) \X CropRanges(MaxLay)

FillValues == {[given |-> FALSE, value |-> 0],
               [given |-> TRUE, value |-> Num(0)]}

\* ---------------------------------------------------------------- state
VARIABLES
    prop,       \* the GridProperty instance
    op,         \* the call made last
    arg,        \* its argument
    raised,     \* the exception it ended in, or "none"
    ret,        \* what it returned
    before,     \* dimensions and masked cells when continuous_to_discrete
                \* last converted, while only the conversions followed
    calls,      \* the number of calls made on the instance so far
    collab      \* the calls the last call made to its collaborators (the
                \* codecs, the grid, the polygon operation), in order

vars == << prop, op, arg, raised, ret, before, calls, collab >>

NoBefore == [valid |-> FALSE, dims |-> <<>>, masked |-> {}]

ntotal(self) == self.ncol * self.nrow * self.nlay

Init ==
    \E shp \in Shapes, discrete \in BOOLEAN, ovf \in OvfResults :
    \E v \in {NoValues} \cup InArrays(Size(shp)) :
        /\ CanInit(shp, v)
        /\ prop = Init_(shp, v, discrete, ovf)
        /\ op = "init"
        /\ arg = [values |-> v, discrete |-> discrete]
        /\ raised = "none"
        /\ ret = None
        /\ before = NoBefore
        /\ calls = 0
        /\ collab = << >>

\* the common ending of a call
Ends(name, a, out) ==
    /\ calls < MaxCalls
    /\ calls' = calls + 1
    /\ prop' = out.self
    /\ op' = name
    /\ arg' = a
    /\ raised' = out.raised
    /\ ret' = out.ret
    /\ collab' = << >>

SetValues ==
    \E len \in {ntotal(prop), ntotal(prop) + 1} \cap (0..MaxLen) :
    \E v \in InArrays(len) \cup {NotAnArray} :
    \E ovf \in IF v = NotAnArray THEN {INT32_MAX} ELSE Ovf(v) :
        /\ Ends("values", v, values_setter(prop, v, ovf))
        /\ before' = NoBefore

SetGeometry ==
    \E geom \in Grids \cup {NoGeometry, NotAGrid} :
        /\ Ends("geometry", geom, geometry_setter(prop, geom))
        /\ before' = NoBefore

ContinuousToDiscrete ==
    \E ovf \in Ovf(prop.values) :
        /\ Ends("continuous_to_discrete", None,
                Outcome(continuous_to_discrete(prop, ovf), "none", None))
        /\ before' = IF ~prop.isdiscrete
                     THEN [valid |-> TRUE, dims |-> Dimensions(prop),
                           masked |-> MaskedCells(prop.values)]
                     ELSE NoBefore

DiscreteToContinuous ==
    /\ Ends("discrete_to_continuous", None,
            Outcome(discrete_to_continuous(prop), "none", None))
    /\ before' = IF op = "continuous_to_discrete" THEN before ELSE NoBefore

MaskUndef ==
    /\ Ends("mask_undef", None, Outcome(mask_undef(prop), "none", None))
    /\ before' = NoBefore

Crop ==
    \E spec \in CropSpecs, ovf \in Ovf(prop.values) :
        /\ Ends("crop", spec, crop(prop, spec, ovf))
        /\ before' = NoBefore

GetNpvalues3d ==
    \E fill \in FillValues, ovf \in Ovf(prop.values) :
        /\ Ends("get_npvalues3d", fill, get_npvalues3d(prop, fill, ovf))
        /\ before' = NoBefore

\* the caller writes one cell of the array get_npvalues3d returned
WriteCell(a, n, w) == [a EXCEPT !.data[n] = w]

WriteReturned ==
    /\ op = "get_npvalues3d"
    /\ \E n \in 1..Len(ret.data) :
        /\ ret' = WriteCell(ret, n, Num(7))
        /\ prop' = IF ret.base = "stored"
                   THEN [prop EXCEPT !.values = WriteCell(prop.values, n, Num(7))]
                   ELSE prop
        /\ op' = "write_returned"
        /\ arg' = n
        /\ raised' = "none"
        /\ before' = NoBefore
        /\ calls' = calls
        /\ collab' = << >>

GetActnum ==
    \E mask \in BOOLEAN, ovf \in OvfResults :
        /\ Ends("get_actnum", mask, get_actnum(prop, mask, ovf))
        /\ before' = NoBefore

ActnumIndices ==
    \E ovf \in OvfResults :
        /\ Ends("actnum_indices", None, actnum_indices(prop, ovf))
        /\ before' = NoBefore

Next ==
    \/ SetValues
    \/ SetGeometry
    \/ ContinuousToDiscrete
    \/ DiscreteToContinuous
    \/ MaskUndef
    \/ Crop
    \/ GetNpvalues3d
    \/ WriteReturned
    \/ GetActnum
    \/ ActnumIndices

Spec == Init /\ [][Next]_vars

\* ------------------------------------- operations inside polygons
\* the polygons a caller hands in, by the cells the geometry places inside
Polys == {[inside |-> {}], [inside |-> {1}]}
Scalars == {Num(0), Num(2)}

\* the ending of a call that may have called collaborators
EndsWith(name, a, out) ==
    /\ calls < MaxCalls
    /\ calls' = calls + 1
    /\ prop' = out.self
    /\ op' = name
    /\ arg' = a
    /\ raised' = out.raised
    /\ ret' = out.ret
    /\ collab' = out.collab
    /\ before' = NoBefore

OperationPolygons ==
    \E poly \in Polys, value \in Scalars, opname \in OpNames, inside \in BOOLEAN :
        EndsWith("operation_polygons",
                 [poly |-> poly, value |-> value, opname |-> opname, inside |-> inside],
                 operation_polygons(prop, poly, value, opname, inside))

Shortform ==
    \E w \in Shortforms, poly \in Polys, value \in Scalars :
        EndsWith(w, [poly |-> poly, value |-> value],
                 CallShortform(w, prop, poly, value))

NextPolygons ==
    \/ SetGeometry
    \/ OperationPolygons
    \/ Shortform

SpecPolygons == Init /\ [][NextPolygons]_vars

\* ------------------------------------------------ import and export
\* file names that exist (a.roff, d/A.ROFF, a.UNRST, a.txt, x.d/a and .roff,
\* the last two without an extension), one that does not, and an open file
PFiles ==
    {[kind |-> "path", path |-> << "a", ".", "r", "o", "f", "f" >>, isfile |-> TRUE],
     [kind |-> "path", path |-> << "d", "/", "A", ".", "R", "O", "F", "F" >>, isfile |-> TRUE],
     [kind |-> "path", path |-> << "a", ".", "U", "N", "R", "S", "T" >>, isfile |-> TRUE],
     [kind |-> "path", path |-> << "a", ".", "t", "x", "t" >>, isfile |-> TRUE],
     [kind |-> "path", path |-> << "x", ".", "d", "/", "a" >>, isfile |-> TRUE],
     [kind |-> "path", path |-> << ".", "r", "o", "f", "f" >>, isfile |-> TRUE],
     [kind |-> "path", path |-> << "a", ".", "r", "o", "f", "f" >>, isfile |-> FALSE],
     [kind |-> "handle", path |-> << >>, isfile |-> FALSE]}

\* fformat of from_file: guess, roff, init, UNRST, ROFF and xyz
ImportFormats ==
    {GUESS, ROFF, INIT, << "U", "N", "R", "S", "T" >>, << "R", "O", "F", "F" >>, << "x", "y", "z" >>}

\* fformat of to_file: guess, roff, roff_binary, roffasc, roff_ascii,
\* grdecl and init
ExportFormats ==
    {GUESS, ROFF, << "r", "o", "f", "f", "_", "b", "i", "n", "a", "r", "y" >>,
     << "r", "o", "f", "f", "a", "s", "c" >>, << "r", "o", "f", "f", "_", "a", "s", "c", "i", "i" >>,
     << "g", "r", "d", "e", "c", "l" >>, INIT}

\* date of from_file: None, 'first', 'last', '1999-01-02', 19990102, 'soon'
Dates ==
    {NoDate, [kind |-> "str", str |-> FIRST], [kind |-> "str", str |-> LAST],
     [kind |-> "str", str |-> << "1", "9", "9", "9", "-", "0", "1", "-", "0", "2" >>],
     [kind |-> "int", value |-> 19990102],
     [kind |-> "str", str |-> << "s", "o", "o", "n" >>]}

\* the status codes a codec answers with
StatusCodes == {0, 1, 22, 23, 24, 25, 26}

\* what a codec reads from a file: one continuous cell
FileContents ==
    {Init_(<< 1, 1, 1 >>, InArray(1, "float64", "ndarray"), FALSE, INT32_MAX)}

\* the calls of from_file: every file with every format, and the files of
\* the supported formats with a grid and every date
FromFileArgs ==
    {[pfile |-> f, fformat |-> ff, grid |-> NoGeometry, date |-> NoDate] :
         f \in PFiles, ff \in ImportFormats}
    \cup {[pfile |-> f, fformat |-> ff, grid |-> g, date |-> d] :
              f \in {x \in PFiles : x.isfile /\ Lower(splitext(x.path)[2]) # << ".", "t", "x", "t" >>},
              ff \in {GUESS}, g \in Grids, d \in Dates}

\* a property made without values, as GridProperty() before from_file
InitFiles == Init /\ arg.values = NoValues

FromFile ==
    \E a \in FromFileArgs, ier \in StatusCodes, content \in FileContents :
        EndsWith("from_file", a,
                 from_file(prop, a.pfile, a.fformat, "PORO", a.grid, a.date,
                           ier, content))

ToFile ==
    \E ff \in ExportFormats, name \in {None, "PORO"} :
        EndsWith("to_file", [fformat |-> ff, name |-> name],
                 to_file(prop, [kind |-> "path", path |-> << "o", "u", "t", ".", "r", "o", "f", "f" >>, isfile |-> TRUE],
                         ff, name))

NextFiles ==
    \/ FromFile
    \/ ToFile

SpecFiles == InitFiles /\ [][NextFiles]_vars

\* ------------------------------------------------- values by I, J, K
\* the longest index arrays a caller hands in
MaxSamples == 2

\* one sample of a well path: its I, J and K
IjkSamples ==
    {<< NaN, NaN, NaN >>,
     << Val(Num(1)), Val(Num(1)), Val(Num(1)) >>,
     << Val(Num(2)), Val(Num(1)), Val(Num(1)) >>,
     << Val(Num(0)), Val(Num(1)), Val(Num(1)) >>,
     << Val(Num(1)), Val(Num(3)), Val(Num(1)) >>,
     << Val(Num(0 - 2)), Val(Num(1)), Val(Num(1)) >>,
     << Val(Num(1)), Val(Num(1)), NaN >>}

IjkPaths == UNION {[1..len -> IjkSamples] : len \in 1..MaxSamples}

GetValuesByIjk ==
    \E path \in IjkPaths, base \in {0, 1}, checkempty \in BOOLEAN :
        LET iarr == [n \in 1..Len(path) |-> path[n][1]]
            jarr == [n \in 1..Len(path) |-> path[n][2]]
            karr == [n \in 1..Len(path) |-> path[n][3]]
        IN  /\ Ends("get_values_by_ijk",
                    [iarr |-> iarr, jarr |-> jarr, karr |-> karr, base |-> base],
                    get_values_by_ijk(prop, iarr, jarr, karr, base, checkempty))
            /\ before' = NoBefore

NextIjk ==
    \/ GetValuesByIjk
    \/ MaskUndef

SpecIjk == Init /\ [][NextIjk]_vars

\* ------------------------------------------------------- dtype setter
\* the dtypes a caller sets: two the storage holds without loss of range,
\* one of the other kind each, and something that is no dtype of either list
SetDTypes == {"int32", "float64", "float32", "bool"}

SetDtype ==
    \E dtype \in SetDTypes, ovf \in Ovf(prop.values) :
        /\ Ends("dtype", dtype, dtype_setter(prop, dtype, ovf))
        /\ before' = NoBefore

NextDtype ==
    \/ SetValues
    \/ SetDtype
    \/ ContinuousToDiscrete
    \/ DiscreteToContinuous
    \/ Crop

SpecDtype == Init /\ [][NextDtype]_vars

\* ----------------------------------------------------- copies and links
\* code tables a caller assigns: labels of the caller's own, on one code
\* and on two
UserCodes ==
    {{[key |-> 1, isnone |-> FALSE, label |-> "sand"]},
     {[key |-> 1, isnone |-> FALSE, label |-> "sand"],
      [key |-> 2, isnone |-> FALSE, label |-> "shale"]}}

SetCodes ==
    \E cdict \in UserCodes :
        /\ Ends("codes", cdict, Outcome(codes_setter(prop, cdict), "none", None))
        /\ before' = NoBefore

\* the date setter: self._date = date
SetDate ==
    \E date \in {[kind |-> "int", value |-> 19990102]} :
        /\ Ends("date", date, Outcome([prop EXCEPT !.date = date], "none", None))
        /\ before' = NoBefore

CopyProperty ==
    \E ovf \in Ovf(prop.values) :
        /\ Ends("copy", None, copy(prop, ovf))
        /\ before' = NoBefore

\* the caller changes the copy it was handed: one cell of its values, or
\* one more entry in its code table
NewEntry == [key |-> 9, isnone |-> FALSE, label |-> "new"]

WriteCopy ==
    /\ op = "copy"
    /\ raised = "none"
    /\ \/ \E n \in 1..Len(ret.self.values.data) :
            /\ ret' = [ret EXCEPT !.self.values = WriteCell(@, n, Num(7))]
            /\ prop' = IF ret.shares
                       THEN [prop EXCEPT !.values = WriteCell(@, n, Num(7))]
                       ELSE prop
            /\ arg' = n
       \/ /\ ret' = [ret EXCEPT !.self.codes = @ \cup {NewEntry}]
          /\ prop' = prop
          /\ arg' = 0
    /\ op' = "write_copy"
    /\ raised' = "none"
    /\ before' = NoBefore
    /\ calls' = calls
    /\ collab' = << >>

NextCopy ==
    \/ SetGeometry
    \/ Crop
    \/ ContinuousToDiscrete
    \/ SetCodes
    \/ SetDate
    \/ CopyProperty
    \/ WriteCopy

SpecCopy == Init /\ [][NextCopy]_vars

\* ---------------------------------------------------------- properties
IsFloat(dt) == dt \in allowedfloat

RECURSIVE SumSeq(_)
SumSeq(q) == IF q = <<>> THEN 0 ELSE Head(q) + SumSeq(Tail(q))

\* the number of unmasked cells of an array
NUnmasked(a) == Len(a.data) - Cardinality(MaskedCells(a))

\* the array of the instance has the shape its dimensions say
Consistent(self) == self.values.shape = Dimensions(self)

\* C1: in every reachable state the shape of the stored values array equals
\* dimensions = (ncol, nrow, nlay), whether the calls made returned or raised.
C1_ShapeEqualsDimensions == prop.values.shape = Dimensions(prop)

\* C2: an assignment of an integer-like array to a continuous property
\* leaves it discrete with integer storage, an assignment of a float-like
\* array to a discrete property leaves it continuous with floating storage,
\* and an assignment of an array of the kind the flag says keeps the flag.
C2_AssignmentSetsKind ==
    [][(op' = "values" /\ raised' = "none") =>
        /\ (HasInt(arg'.dtype) /\ ~prop.isdiscrete) =>
               (prop'.isdiscrete /\ HasInt(prop'.values.dtype))
        /\ (~HasInt(arg'.dtype) /\ prop.isdiscrete) =>
               (~prop'.isdiscrete /\ IsFloat(prop'.values.dtype))
        /\ (HasInt(arg'.dtype) = prop.isdiscrete) =>
               (prop'.isdiscrete = prop.isdiscrete)]_vars

\* an int64 array was assigned and the storage is int32: the assignment
\* converted a continuous property
C2_Witness ==
    /\ op = "values"
    /\ raised = "none"
    /\ arg.dtype = "int64"
    /\ prop.isdiscrete
    /\ prop.values.dtype = "int32"

\* C3: an assignment of an array whose element count differs from
\* ncol*nrow*nlay ends in the error numpy's reshape raises (a ValueError,
\* the ShapeError of the specification), and the stored array, the
\* dimensions, the discrete flag and the code table stay as they were.
C3_FailedAssignmentKeepsState ==
    [][(/\ op' = "values"
        /\ arg'.kind \in {"ndarray", "masked"}
        /\ Len(arg'.data) # ntotal(prop)) =>
        /\ raised' = "ValueError"
        /\ prop'.values = prop.values
        /\ Dimensions(prop') = Dimensions(prop)
        /\ prop'.isdiscrete = prop.isdiscrete
        /\ prop'.codes = prop.codes]_vars

C3_Witness ==
    /\ op = "values"
    /\ arg.kind = "masked"
    /\ Len(arg.data) = ntotal(prop) + 1
    /\ raised = "ValueError"
    /\ prop.codes # {}

\* C4: get_npvalues3d returns an int32 array whenever the property is
\* discrete and a float64 array whenever it is continuous, for every storage
\* width and every fill_value, given or omitted.
C4_DenseCopyDtype ==
    op = "get_npvalues3d" =>
        ret.dtype = (IF prop.isdiscrete THEN "int32" ELSE "float64")

\* C5: get_npvalues3d never aliases the stored array: neither the call nor
\* a write to the array it returned changes the values, mask or dtype the
\* property reads.
C5_DenseCopyNeverAliases ==
    [][op' \in {"get_npvalues3d", "write_returned"} =>
        prop'.values = prop.values]_vars

\* a cell of the returned array was overwritten, of a property without a
\* mask (where ma.filled hands out the data of its argument), and the
\* stored cell still reads something else
C5_Witness ==
    /\ op = "write_returned"
    /\ prop.values.mask = <<>>
    /\ ret.data[arg] = Num(7)
    /\ prop.values.data[arg] # Num(7)

\* C6: continuous_to_discrete followed by discrete_to_continuous on a
\* continuous property leaves dimensions unchanged and exactly the same
\* cells masked.
C6_RoundTripKeepsMask ==
    (op = "discrete_to_continuous" /\ before.valid) =>
        /\ Dimensions(prop) = before.dims
        /\ MaskedCells(prop.values) = before.masked

\* the round trip was made on a property with masked and unmasked cells,
\* and left a value truncated to a whole number where the ramp input has none
C6_Witness ==
    /\ op = "discrete_to_continuous"
    /\ before.valid
    /\ before.masked # {}
    /\ ~prop.isdiscrete
    /\ \E n \in 1..Len(prop.values.data) :
           /\ ~IsMasked(prop.values, n)
           /\ prop.values.data[n] = Trunc(n)
           /\ Trunc(n) # n

\* C7: for every property, the sum of the cell values of
\* get_actnum(mask=False) and len(actnum_indices) both equal the number of
\* unmasked cells of the property.
C7_ActnumSumIsNactive ==
    /\ (op = "get_actnum" /\ arg = FALSE) =>
           /\ raised = "none"
           /\ SumSeq(ret.values.data) = Num(NUnmasked(prop.values))
    /\ op = "actnum_indices" =>
           /\ raised = "none"
           /\ Len(ret) = NUnmasked(prop.values)

\* Where the array has the shape the dimensions say, get_actnum(mask=False)
\* and actnum_indices return, and both count the unmasked cells.
Actnum_OnConsistentState ==
    /\ (op = "get_actnum" /\ arg = FALSE /\ Consistent(prop)) =>
           /\ raised = "none"
           /\ SumSeq(ret.values.data) = Num(NUnmasked(prop.values))
    /\ (op = "actnum_indices" /\ Consistent(prop)) =>
           /\ raised = "none"
           /\ Len(ret) = NUnmasked(prop.values)

\* C8: get_actnum returns a new discrete property of the dimensions of the
\* source, 1 where the source cell is unmasked and 0 where it is masked,
\* with the code table {0: '0', 1: '1'}, with exactly the 0 cells masked
\* when mask=True and no cell masked otherwise; the source is not changed.
C8_ActnumProperty ==
    [][op' = "get_actnum" =>
        /\ raised' = "none"
        /\ ret'.isdiscrete
        /\ Dimensions(ret') = Dimensions(prop)
        /\ ret'.values.shape = Dimensions(prop)
        /\ \A n \in 1..Len(ret'.values.data) :
               ret'.values.data[n] =
                   (IF IsMasked(prop.values, n) THEN Num(0) ELSE Num(1))
        /\ ret'.codes = {[key |-> 0, isnone |-> FALSE, label |-> "0"],
                         [key |-> 1, isnone |-> FALSE, label |-> "1"]}
        /\ MaskedCells(ret'.values) =
               (IF arg' THEN MaskedCells(prop.values) ELSE {})
        /\ prop' = prop]_vars

\* Where the array of the source has the shape the dimensions say,
\* get_actnum returns the property C8 describes and leaves the source alone.
ActnumProperty_OnConsistentState ==
    [][(op' = "get_actnum" /\ Consistent(prop)) =>
        /\ raised' = "none"
        /\ ret'.isdiscrete
        /\ ret'.values.shape = Dimensions(prop)
        /\ \A n \in 1..Len(ret'.values.data) :
               ret'.values.data[n] =
                   (IF IsMasked(prop.values, n) THEN Num(0) ELSE Num(1))
        /\ ret'.codes = ActnumCodes
        /\ MaskedCells(ret'.values) =
               (IF arg' THEN MaskedCells(prop.values) ELSE {})
        /\ prop' = prop]_vars

\* the ranges of a crop lie within the dimensions dims
WithinDims(spec, dims) ==
    \A d \in 1..3 : 1 <= spec[d][1] /\ spec[d][1] <= spec[d][2] /\ spec[d][2] <= dims[d]

Extents(spec) == [d \in 1..3 |-> spec[d][2] - spec[d][1] + 1]

\* the array after is the block of the array before that the ranges name
IsSubBlock(after, bef, spec) ==
    /\ after.shape = Extents(spec)
    /\ \A n \in 1..Size(Extents(spec)) :
           LET c == Unravel(Extents(spec), n)
               m == CIndex(bef.shape, spec[1][1] - 1 + c[1],
                           spec[2][1] - 1 + c[2], spec[3][1] - 1 + c[3])
           IN  /\ after.data[n] = bef.data[m]
               /\ IsMasked(after, n) = IsMasked(bef, m)

\* C9: a crop with 1-based inclusive ranges within the current dimensions
\* sets dimensions to the extents of the ranges and makes cell (a, b, c) of
\* the new array equal, in value and mask, to cell (i1-1+a, j1-1+b, k1-1+c)
\* of the array before.
C9_CropTakesSubBlock ==
    [][(op' = "crop" /\ WithinDims(arg', Dimensions(prop))) =>
        /\ Dimensions(prop') = Extents(arg')
        /\ IsSubBlock(prop'.values, prop.values, arg')]_vars

\* Where the array before the crop has the shape the dimensions say, the
\* crop within the dimensions takes the block.
Crop_OnConsistentState ==
    [][(/\ op' = "crop"
        /\ WithinDims(arg', Dimensions(prop))
        /\ Consistent(prop)) =>
        /\ Dimensions(prop') = Extents(arg')
        /\ IsSubBlock(prop'.values, prop.values, arg')]_vars

\* C10: a new property has no geometry link; setting the link succeeds only
\* for None or for a Grid of the dimensions of the property, and any other
\* value is rejected with an error, the stored link kept.
C10_GeometryLinkValidated ==
    /\ (op = "init" => prop.geometry = NoGeometry)
    /\ [][op' = "geometry" =>
           IF \/ arg'.type = "None"
              \/ (arg'.type = "Grid" /\ arg'.dimensions = Dimensions(prop))
           THEN raised' = "none" /\ prop'.geometry = arg'
           ELSE raised' = "ValueError" /\ prop'.geometry = prop.geometry]_vars

\* a Grid of other dimensions than the property's was rejected while a
\* link was stored, and the link is still there
C10_Witness ==
    /\ op = "geometry"
    /\ arg.type = "Grid"
    /\ arg.dimensions # Dimensions(prop)
    /\ raised = "ValueError"
    /\ prop.geometry.type = "Grid"

\* C11: operation_polygons and every shortform (add/sub/mul/div/set,
\* inside/outside), called on a property whose geometry link is None, raises
\* (a ValueError, the PreconditionError of the specification) before the
\* polygon collaborator is called, and the array of the property stays as
\* it was.
C11_PolygonsNeedGeometry ==
    [][(/\ op' \in Shortforms \cup {"operation_polygons"}
        /\ prop.geometry = NoGeometry) =>
        /\ raised' = "ValueError"
        /\ collab' = << >>
        /\ prop'.values = prop.values]_vars

\* set_outside was refused on a property whose link had been set and then
\* taken away again
C11_Witness ==
    /\ op = "set_outside"
    /\ calls = 3
    /\ raised = "ValueError"
    /\ prop.geometry = NoGeometry
    /\ Dimensions(prop) = << MaxCol, MaxRow, MaxLay >>
    /\ collab = << >>

\* the status code the codec answered the last call with
Answered == collab[1].ier

Registered == \E n \in 1..Len(collab) : collab[n].fn = "append_prop"

\* C13: from_file calls grid.append_prop if and only if a grid was handed
\* in and the codec answered 0; a from_file that ended in an error has not
\* called it.
C13_RegistersOnSuccessOnly ==
    op = "from_file" =>
        /\ Registered <=>
               (arg.grid # NoGeometry /\ collab # << >> /\ Answered = 0)
        /\ raised # "none" => ~Registered

\* a restart import with a grid and the date 'last' went through, and the
\* grid was told after the codec answered
C13_Witness ==
    /\ op = "from_file"
    /\ raised = "none"
    /\ arg.grid # NoGeometry
    /\ arg.date = [kind |-> "str", str |-> LAST]
    /\ Len(collab) = 2
    /\ collab[1].etype = 5
    /\ collab[1].date = 9
    /\ collab[2].fn = "append_prop"

\* the extension of a file name, lower case and without the dot, by
\* os.path.splitext
Extension(pfile) == Without(Lower(splitext(pfile.path)[2]), ".")

Supported == {ROFF, INIT, UNRST}

\* the cases of C14 where no format can be determined
NoFormat(a) ==
    IF a.fformat = GUESS
    THEN a.pfile.kind = "handle" \/ Extension(a.pfile) \notin Supported
    ELSE Lower(a.fformat) \notin Supported

C15_ExportFormats ==
    op = "to_file" =>
        /\ arg.fformat = GUESS =>
               (Len(collab) = 1 /\ collab[1].fn = "export_roff" /\ collab[1].binary)
        /\ Contains(arg.fformat, ROFF) =>
               /\ Len(collab) = 1
               /\ collab[1].fn = "export_roff"
               /\ collab[1].binary = ~Contains(arg.fformat, ASC)
        /\ (arg.fformat # GUESS /\ ~Contains(arg.fformat, ROFF)) =>
               (raised # "none" /\ collab = << >>)

\* guess, and the formats that name roff, are exported as C15 says
ToFile_Roff ==
    (op = "to_file" /\ (arg.fformat = GUESS \/ Contains(arg.fformat, ROFF))) =>
        /\ raised = "none"
        /\ Len(collab) = 1
        /\ collab[1].fn = "export_roff"
        /\ collab[1].binary = ~Contains(arg.fformat, ASC)

\* the I, J, K of sample n of the last call, less base
Sample(n) ==
    << IndexOf(arg.iarr[n], arg.base), IndexOf(arg.jarr[n], arg.base),
       IndexOf(arg.karr[n], arg.base) >>

SampleNaN(n) == << arg.iarr[n].nan, arg.jarr[n].nan, arg.karr[n].nan >>

\* every index of the last call that is not NaN lies, less base, within
\* 0..dim-1 of its axis of the array
AllInRange ==
    \A n \in 1..Len(arg.iarr) : \A d \in 1..3 :
        ~SampleNaN(n)[d] =>
            (0 <= Sample(n)[d] /\ Sample(n)[d] < prop.values.shape[d])

\* I, J and K of every sample of the last call are NaN together
PairedNaN ==
    \A n \in 1..Len(arg.iarr) :
        SampleNaN(n) \in {<< TRUE, TRUE, TRUE >>, << FALSE, FALSE, FALSE >>}

\* C16: get_values_by_ijk returns None for the whole call whenever an index
\* that is not NaN lies, after base is subtracted, outside 0..dim-1 of its
\* axis: below base (index 0 with base 1) as well as above the extent.
\* Stated for the calls whose I, J and K are NaN together.
C16_OutOfRangeGivesNone ==
    (op = "get_values_by_ijk" /\ PairedNaN /\ ~AllInRange) =>
        (raised = "none" /\ ret.isnone)

\* an index above the extent of its axis, or further below zero than the
\* extent, gives None
Ijk_AboveGivesNone ==
    (/\ op = "get_values_by_ijk"
     /\ PairedNaN
     /\ \E n \in 1..Len(arg.iarr) : \E d \in 1..3 :
            /\ ~SampleNaN(n)[d]
            /\ \/ Sample(n)[d] >= prop.values.shape[d]
               \/ Sample(n)[d] < 0 - prop.values.shape[d]) =>
        (raised = "none" /\ ret.isnone)

\* what C17 says entry n of the result is
Expected(n) ==
    IF TRUE \in {SampleNaN(n)[d] : d \in 1..3} THEN NaN
    ELSE LET c == CIndex(prop.values.shape, Sample(n)[1], Sample(n)[2], Sample(n)[3])
         IN  IF IsMasked(prop.values, c) THEN NaN ELSE Val(prop.values.data[c])

\* C17: get_values_by_ijk with every index that is not NaN in range returns
\* one entry per sample: NaN where the index of the sample is NaN, else the
\* stored value of cell (i-base, j-base, k-base), NaN if that cell is
\* masked; the property is not changed.
C17_InRangeGivesValues ==
    [][(op' = "get_values_by_ijk"
        /\ \A n \in 1..Len(arg'.iarr) : \A d \in 1..3 :
               ~<< arg'.iarr[n].nan, arg'.jarr[n].nan, arg'.karr[n].nan >>[d] =>
                   LET x == IndexOf(<< arg'.iarr[n], arg'.jarr[n], arg'.karr[n] >>[d],
                                    arg'.base)
                   IN  0 <= x /\ x < prop.values.shape[d]) =>
        /\ raised' = "none"
        /\ ~ret'.isnone
        /\ Len(ret'.values) = Len(arg'.iarr)
        /\ \A n \in 1..Len(arg'.iarr) :
               ret'.values[n] =
                   (IF arg'.iarr[n].nan \/ arg'.jarr[n].nan \/ arg'.karr[n].nan
                    THEN NaN
                    ELSE LET c == CIndex(prop.values.shape,
                                         IndexOf(arg'.iarr[n], arg'.base),
                                         IndexOf(arg'.jarr[n], arg'.base),
                                         IndexOf(arg'.karr[n], arg'.base))
                         IN  IF IsMasked(prop.values, c) THEN NaN
                             ELSE Val(prop.values.data[c]))
        /\ prop' = prop]_vars

\* where I, J and K of every sample are NaN together, the call with every
\* index in range returns what C17 says
Ijk_OnPairedNaN ==
    (/\ op = "get_values_by_ijk"
     /\ AllInRange
     /\ PairedNaN) =>
        /\ raised = "none"
        /\ ~ret.isnone
        /\ Len(ret.values) = Len(arg.iarr)
        /\ \A n \in 1..Len(arg.iarr) : ret.values[n] = Expected(n)

\* the code table C18 describes for array a: its distinct values, each
\* with its own decimal string
DistinctCodes(a) ==
    {CodeEntry(a.data[n]) : n \in {m \in 1..Len(a.data) : ~IsMasked(a, m)}}

\* C18: continuous_to_discrete on a continuous property sets the discrete
\* flag and makes the code table the mapping whose keys are exactly the
\* distinct integer values of the converted array, each mapped to its own
\* decimal string; on a discrete property it changes nothing.
C18_CodesAreDistinctValues ==
    [][op' = "continuous_to_discrete" =>
        IF prop.isdiscrete
        THEN prop' = prop
        ELSE /\ prop'.isdiscrete
             /\ prop'.codes = DistinctCodes(prop'.values)]_vars

\* on a property without a masked cell, and on a discrete one,
\* continuous_to_discrete does what C18 says
C2D_WithoutMaskedCells ==
    [][(op' = "continuous_to_discrete" /\ MaskedCells(prop.values) = {}) =>
        IF prop.isdiscrete
        THEN prop' = prop
        ELSE /\ prop'.isdiscrete
             /\ prop'.codes = DistinctCodes(prop'.values)]_vars

\* with a masked cell the code table is the one of C18 and the key None
C2D_WithMaskedCells ==
    [][(/\ op' = "continuous_to_discrete"
        /\ MaskedCells(prop.values) # {}
        /\ ~prop.isdiscrete) =>
        prop'.codes = DistinctCodes(prop'.values) \cup {NoneEntry}]_vars

\* the 0-based flat C-order positions of the unmasked cells of array a
FlatUnmasked(a) ==
    SelectSeq([n \in 1..Len(a.data) |-> n - 1], LAMBDA i : ~IsMasked(a, i + 1))

\* C19: every call of actnum_indices returns exactly the flat C-order
\* indices of the cells unmasked in the array the property holds at that
\* call, whatever assignments, crops and mask_undef calls came before.
C19_ActnumIndicesAreCurrent ==
    op = "actnum_indices" =>
        /\ raised = "none"
        /\ ret = FlatUnmasked(prop.values)

\* where the array has the shape the dimensions say, actnum_indices
\* returns the indices C19 says
ActnumIndices_OnConsistentState ==
    (op = "actnum_indices" /\ Consistent(prop)) =>
        /\ raised = "none"
        /\ ret = FlatUnmasked(prop.values)

\* C20: in every reachable state, from the construction with any values
\* and any discrete argument on, the discrete flag is true if and only if
\* the stored array has an integer dtype, so that undef and undef_limit are
\* the sentinels of the storage type.
C20_FlagMatchesStorage ==
    /\ prop.isdiscrete <=> HasInt(prop.values.dtype)
    /\ undef(prop) = (IF HasInt(prop.values.dtype) THEN UNDEF_INT ELSE UNDEF)
    /\ undef_limit(prop) =
           (IF HasInt(prop.values.dtype) THEN UNDEF_INT_LIMIT ELSE UNDEF_LIMIT)

\* a call that returns leaves the flag matching the storage where it
\* matched before; a call that changes the array makes it match
Flag_KeptByCalls ==
    [][(raised' = "none" /\ op' # "write_returned") =>
        /\ (prop.isdiscrete <=> HasInt(prop.values.dtype)) =>
               (prop'.isdiscrete <=> HasInt(prop'.values.dtype))
        /\ op' \in {"values", "dtype", "crop"} /\ prop'.values # prop.values =>
               (prop'.isdiscrete <=> HasInt(prop'.values.dtype))]_vars

\* C21: whenever the property holds a link to a grid, the dimensions of
\* that grid are the dimensions of the property; the same holds of the copy
\* that copy() has just returned.
LinkMatches(self) ==
    self.geometry # NoGeometry => self.geometry.dimensions = Dimensions(self)

C21_GeometryLinkMatches ==
    /\ LinkMatches(prop)
    /\ op = "copy" /\ raised = "none" => LinkMatches(ret.self)

\* what does hold: the geometry setter and copy() never leave a link that
\* does not match, on the instance or on the copy; only a crop of a linked
\* property does
Link_OnlyCropBreaks ==
    [][/\ op' \in {"geometry", "copy"} /\ raised' = "none" /\ LinkMatches(prop)
           => LinkMatches(prop')
       /\ op' = "copy" /\ raised' = "none" => LinkMatches(ret'.self)
       /\ LinkMatches(prop) /\ ~LinkMatches(prop') => op' = "crop"]_vars

Link_Witness ==
    /\ op = "copy" /\ raised = "none"
    /\ prop.geometry # NoGeometry
    /\ ret.self.geometry = prop.geometry

\* C22: copy() returns a new instance with the dimensions, values, mask,
\* discrete flag, code table, date and geometry link of the source, which it
\* leaves as it was; and a later change to the values or the code table of
\* the copy does not change the source.
SameValues(a, b) ==
    /\ a.shape = b.shape
    /\ a.dtype = b.dtype
    /\ a.data = b.data
    /\ MaskedCells(a) = MaskedCells(b)

SameButCodes(src, x) ==
    /\ Dimensions(x) = Dimensions(src)
    /\ SameValues(x.values, src.values)
    /\ x.isdiscrete = src.isdiscrete
    /\ x.date = src.date
    /\ x.geometry = src.geometry

C22_CopyEqualsSource ==
    [][/\ op' = "copy" =>
           /\ raised' = "none"
           /\ prop' = prop
           /\ SameButCodes(prop, ret'.self)
           /\ ret'.self.codes = prop.codes
       /\ op' = "write_copy" => prop' = prop]_vars

\* what does hold: copy() never changes the source and the copy shares
\* nothing with it; of a source whose shape is its dimensions and whose
\* link matches, copy() returns an instance equal in everything but the
\* code table; the code table of the copy of a discrete source is the one
\* continuous_to_discrete builds from the values, whatever the source held
Copy_ButCodes ==
    [][/\ op' = "copy" =>
           /\ prop' = prop
           /\ Consistent(prop) /\ LinkMatches(prop) =>
                  /\ raised' = "none"
                  /\ SameButCodes(prop, ret'.self)
                  /\ ret'.self.roxar_dtype = prop.roxar_dtype
                  /\ ret'.self.codes = IF prop.isdiscrete
                                       THEN UniqueCodes(prop.values)
                                       ELSE prop.codes
           /\ raised' = "none" => ~ret'.shares
           /\ raised' # "none" => raised' = "ValueError"
                                  /\ (~Consistent(prop) \/ ~LinkMatches(prop))
       /\ op' = "write_copy" => prop' = prop /\ ret' # ret]_vars

\* a discrete source with labels of the caller's own has been copied
Copy_Labelled ==
    /\ op = "copy" /\ raised = "none"
    /\ prop.isdiscrete
    /\ \E e \in prop.codes : e.label = "sand"
    /\ \A e \in ret.self.codes : e.label # "sand"

\* a continuous source with a date and a link has been copied
Copy_Continuous ==
    /\ op = "copy" /\ raised = "none"
    /\ ~prop.isdiscrete
    /\ prop.date # NoDate /\ prop.geometry # NoGeometry
    /\ ret.self.date = prop.date /\ ret.self.geometry = prop.geometry
    /\ ret.self.codes = prop.codes

=============================================================================
